---- MODULE Spec2Model ----
(***************************************************************************)
(* One-directional folder mirroring service: sync_service.py drives a      *)
(* storage provider (cloud_providers/yandex_disk.py or local_mock.py).     *)
(*                                                                         *)
(* Abstraction of the file systems                                         *)
(*   local[n]  : "none" | "dir" | "file"      entry n of the local folder  *)
(*   remote[n] : "none" | "dir" | "old" | "new"                            *)
(*               entry n of the provider's folder; "new" is a file whose   *)
(*               bytes equal the local file n, "old" a file with any other *)
(*               bytes (stale, foreign or truncated).                      *)
(*                                                                         *)
(* State of the running service                                            *)
(*   settings     the environment as load_config reads it                  *)
(*   provider     the provider the factory selected, "-" before that       *)
(*   pc           where main()/sync() stands: "config" at start-up,        *)
(*                "scan", "list", "delete", "upload" inside a cycle,       *)
(*                "sleep" between two cycles, "stopped" after main() has   *)
(*                returned                                                 *)
(*   local_files  names recorded by get_local_state in this cycle          *)
(*   local_mtime  the modification time recorded with each of them         *)
(*   cloud_files  names returned by get_cloud_state in this cycle          *)
(*   done         names the running loop has already iterated over         *)
(*   raised       an exception reached the except clause of sync()         *)
(* Observations of the current cycle                                       *)
(*   scan, listed how the local scan and the remote listing went           *)
(*   calls        the provider calls issued, in order, with their results  *)
(*   status       HTTP exchanges of the last direct provider call          *)
(*   healing      some earlier cycle was not fully successful              *)
(*   cycles       calls of sync() made by main() so far                    *)
(*   sleeps       calls of time.sleep() that have returned so far          *)
(*   twin         the Yandex folder driven side by side with the mock      *)
(*                folder when the two providers are compared               *)
(***************************************************************************)
EXTENDS Integers, Sequences, FiniteSets, TLC

NumNames == 2
MaxCycles == 2                   \* cycles followed when the scheduler is counted

Names == 1..NumNames
NoName == NumNames + 1          \* stands for an item without a "name" key

VARIABLES provider, local, remote, pc, local_files, cloud_files, done,
          calls, raised, scan, listed, status, healing,
          settings, local_mtime, twin, cycles, sleeps

vars == <<provider, local, remote, pc, local_files, cloud_files, done,
          calls, raised, scan, listed, status, healing,
          settings, local_mtime, twin, cycles, sleeps>>

Providers == {"yandex", "local_mock"}

\* The environment of main(): whether LOCAL_FOLDER_PATH, CLOUD_FOLDER_NAME
\* and ACCESS_TOKEN are all set, whether LOCAL_FOLDER_PATH is a directory,
\* and the value of CLOUD_PROVIDER ("yandex" when unset): one spelling for
\* each provider, one of them not in lower case, and an unsupported name.
Selectors == {"yandex", "LOCAL_MOCK", "dropbox"}
Settings == [required : BOOLEAN, folder : BOOLEAN, selector : Selectors]

\* str.lower() on the selectors
lower(sel) == IF sel = "LOCAL_MOCK" THEN "local_mock" ELSE sel

\* load_config(): ValueError for a missing setting, FileNotFoundError for
\* a local folder that is no directory.
load_config(env) ==
    IF ~env.required THEN "ValueError"
    ELSE IF ~env.folder THEN "FileNotFoundError"
    ELSE "ok"

\* get_cloud_provider(): the provider for config["cloud_provider"].lower(),
\* "-" for the ValueError of an unsupported name.
get_cloud_provider(sel) ==
    IF lower(sel) \in Providers THEN lower(sel) ELSE "-"

\* st_mtime of a scanned file, against the previous scan
MTimes == {"same", "newer"}

RemoteFiles(rem) == {n \in Names : rem[n] \in {"old", "new"}}
LocalFiles(loc) == {n \in Names : loc[n] = "file"}

(***************************************************************************)
(* HTTP exchange with the Yandex Disk API.  net = TRUE is a                *)
(* requests.exceptions.RequestException (no response at all).              *)
(***************************************************************************)
Resp(code, body) == [net |-> FALSE, code |-> code, body |-> body]
NetError == [net |-> TRUE, code |-> 0, body |-> ""]

\* Mutation: only 200 and 201 are accepted.
check_response_narrow(response) == response.code \in {200, 201}

\* _check_response
check_response(response) == response.code \in {200, 201, 202, 204}

\* Result of one provider call: the boolean it returns (ok), whether an
\* exception escaped instead (exc), the provider folder afterwards and the
\* HTTP exchanges made.
Out(ok, exc, rem, st) == [ok |-> ok, exc |-> exc, remote |-> rem, status |-> st]

(***************************************************************************)
(* LocalMockProvider                                                       *)
(***************************************************************************)
\* shutil.copy2(local_path, destination) inside try/except Exception.
\* A destination that is a directory receives the file inside it; a failed
\* copy leaves the destination untouched or truncated.
LocalMockLoad(rem, loc, n) ==
    LET copied == IF rem[n] = "dir" THEN rem ELSE [rem EXCEPT ![n] = "new"]
        partial == IF rem[n] = "dir" THEN rem ELSE [rem EXCEPT ![n] = "old"]
    IN  IF loc[n] = "file"
        THEN {Out(TRUE, FALSE, copied, <<>>),
              Out(FALSE, FALSE, rem, <<>>),
              Out(FALSE, FALSE, partial, <<>>)}
        ELSE {Out(FALSE, FALSE, rem, <<>>)}

LocalMockReload(rem, loc, n) == LocalMockLoad(rem, loc, n)

\* Mutation: unlink() without the exists() test, a missing file raises.
LocalMockDeleteUnchecked(rem, n) ==
    IF rem[n] \in {"none", "dir"}
    THEN {Out(FALSE, FALSE, rem, <<>>)}
    ELSE {Out(TRUE, FALSE, [rem EXCEPT ![n] = "none"], <<>>),
          Out(FALSE, FALSE, rem, <<>>)}

\* exists() then unlink(); unlink of a directory or of a protected file raises.
LocalMockDelete(rem, n) ==
    IF rem[n] = "none"
    THEN {Out(TRUE, FALSE, rem, <<>>)}
    ELSE IF rem[n] = "dir"
         THEN {Out(FALSE, FALSE, rem, <<>>)}
         ELSE {Out(TRUE, FALSE, [rem EXCEPT ![n] = "none"], <<>>),
               Out(FALSE, FALSE, rem, <<>>)}

\* A listing document: data = FALSE is None.
NoData == [data |-> FALSE, embedded |-> FALSE, hasItems |-> FALSE, items |-> {}]
Listing(items) == [data |-> TRUE, embedded |-> TRUE, hasItems |-> TRUE, items |-> items]
Item(name, type) == [name |-> name, type |-> type]

\* Result of get_info: the document it returns, whether an exception
\* escaped instead (exc), and the HTTP exchange made.
Info(exc, doc, st) == [exc |-> exc, doc |-> doc, status |-> st]

\* iterdir() over the mock folder inside try/except Exception
LocalMockGetInfo(rem) ==
    {Info(FALSE, Listing({Item(n, "file") : n \in RemoteFiles(rem)}), <<>>),
     Info(FALSE, NoData, <<>>)}

(***************************************************************************)
(* YandexDiskProvider and the answers of the API it talks to               *)
(***************************************************************************)
\* GET {base}/upload?path=..&overwrite=..  : 409 when the path is taken and
\* may not be overwritten; the body of a 200 answer is a JSON object with an
\* href, a JSON object without one, or JSON that is not an object.
UploadUrlResponses(rem, n, overwrite) ==
    LET conflict == rem[n] = "dir" \/ (rem[n] # "none" /\ ~overwrite)
    IN  {NetError, Resp(500, "")} \cup
        (IF conflict THEN {Resp(409, "")}
                     ELSE {Resp(200, b) : b \in {"href", "nohref", "notobject"}})

\* PUT href
TransferResponses == {NetError, Resp(201, ""), Resp(202, ""), Resp(507, "")}

YandexUpload(rem, loc, n, overwrite) ==
    UNION {
      IF r.net \/ ~check_response(r)
      THEN {Out(FALSE, FALSE, rem, <<r>>)}
      ELSE IF r.body = "notobject"
      THEN {Out(FALSE, TRUE, rem, <<r>>)}          \* .get on a non-dict
      ELSE IF loc[n] # "file"
      THEN {Out(FALSE, FALSE, rem, <<r>>)}         \* OSError from open()
      ELSE IF r.body = "nohref"
      THEN {Out(FALSE, FALSE, rem, <<r>>)}         \* MissingSchema from put(None)
      ELSE { IF u.net
             THEN Out(FALSE, FALSE, rem, <<r, u>>)
             ELSE Out(check_response(u), FALSE,
                      IF check_response(u) THEN [rem EXCEPT ![n] = "new"] ELSE rem,
                      <<r, u>>)
             : u \in TransferResponses }
      : r \in UploadUrlResponses(rem, n, overwrite) }

YandexLoad(rem, loc, n) == YandexUpload(rem, loc, n, FALSE)
YandexReload(rem, loc, n) == YandexUpload(rem, loc, n, TRUE)

\* DELETE {base}?path=..&permanently=true
DeleteResponses(rem, n) ==
    {NetError, Resp(500, "")} \cup
    (IF rem[n] = "none" THEN {Resp(404, "")} ELSE {Resp(204, ""), Resp(202, "")})

\* Mutation: delete without its except clause, a network error escapes.
YandexDeleteUncaught(rem, n) ==
    { IF r.net
      THEN Out(FALSE, TRUE, rem, <<r>>)
      ELSE IF r.code = 404
      THEN Out(TRUE, FALSE, rem, <<r>>)
      ELSE Out(check_response(r), FALSE,
               IF check_response(r) THEN [rem EXCEPT ![n] = "none"] ELSE rem,
               <<r>>)
      : r \in DeleteResponses(rem, n) }

YandexDelete(rem, n) ==
    { IF r.net
      THEN Out(FALSE, FALSE, rem, <<r>>)
      ELSE IF r.code = 404
      THEN Out(TRUE, FALSE, rem, <<r>>)
      ELSE Out(check_response(r), FALSE,
               IF check_response(r) THEN [rem EXCEPT ![n] = "none"] ELSE rem,
               <<r>>)
      : r \in DeleteResponses(rem, n) }

\* Documents a 200 answer to the listing request can carry: the listing, or
\* a listing with a key or an item field missing.
TypeOf(k) == IF k = "dir" THEN "dir" ELSE "file"
TrueItems(rem) == {Item(n, TypeOf(rem[n])) : n \in {m \in Names : rem[m] # "none"}}
ListingDocs(rem) ==
    {Listing(TrueItems(rem)),
     [Listing({}) EXCEPT !.embedded = FALSE, !.hasItems = FALSE],
     [Listing({}) EXCEPT !.hasItems = FALSE]} \cup
    {Listing(TrueItems(rem) \cup {bad}) :
        bad \in {Item(NoName, "file"), Item(NoName, "dir")} \cup
                {Item(n, "missing") : n \in Names}}

\* GET {base}?path=..&limit=1000 ; response.json() of a body that is not
\* JSON raises inside or outside RequestException depending on the
\* installed requests release.
ListingResponses ==
    {NetError, Resp(500, ""), Resp(200, "json"), Resp(200, "notjson")}

YandexGetInfo(rem) ==
    UNION {
      IF r.net \/ ~check_response(r)
      THEN {Info(FALSE, NoData, <<r>>)}
      ELSE IF r.body = "notjson"
      THEN {Info(FALSE, NoData, <<r>>), Info(TRUE, NoData, <<r>>)}
      ELSE {Info(FALSE, d, <<r>>) : d \in ListingDocs(rem)}
      : r \in ListingResponses }

(***************************************************************************)
(* Provider dispatch (get_cloud_provider)                                  *)
(***************************************************************************)
Load(p, rem, loc, n) ==
    IF p = "yandex" THEN YandexLoad(rem, loc, n) ELSE LocalMockLoad(rem, loc, n)
Reload(p, rem, loc, n) ==
    IF p = "yandex" THEN YandexReload(rem, loc, n) ELSE LocalMockReload(rem, loc, n)
Delete(p, rem, n) ==
    IF p = "yandex" THEN YandexDelete(rem, n) ELSE LocalMockDelete(rem, n)
GetInfo(p, rem) ==
    IF p = "yandex" THEN YandexGetInfo(rem) ELSE LocalMockGetInfo(rem)

(***************************************************************************)
(* sync_service.py                                                         *)
(***************************************************************************)
\* get_local_state: entries are visited in directory order; an OSError from
\* iterdir() (kind "dirfail") or from is_file()/stat() on an entry (kind
\* "itemfail") ends the loop and what was recorded so far is returned.
Entries(loc) == {n \in Names : loc[n] # "none"}

\* Mutation: the is_file() test is dropped, directories are recorded too.
get_local_state_unfiltered(loc) ==
    {[files |-> Entries(loc), kind |-> "ok"],
     [files |-> {}, kind |-> "dirfail"]} \cup
    {[files |-> S, kind |-> "itemfail"] :
        S \in (SUBSET Entries(loc)) \ {Entries(loc)}}

get_local_state(loc) ==
    {[files |-> LocalFiles(loc), kind |-> "ok"],
     [files |-> {}, kind |-> "dirfail"]} \cup
    {[files |-> S \cap LocalFiles(loc), kind |-> "itemfail"] :
        S \in (SUBSET Entries(loc)) \ {Entries(loc)}}

\* Mutation: every named item is retained, whatever its type.
RetainedAnyType(items) == {j \in items : j.name # NoName}

\* 'if item["type"] == "file"'
Retained(items) == {j \in items : j.type = "file"}

\* Mutation: the "cloud_info and" guard is dropped, None is subscripted.
get_cloud_state_unguarded(info) ==
    IF info.data /\ info.embedded /\ info.hasItems
    THEN [exc |-> \E i \in info.items :
                     i.type = "missing" \/ (i.type = "file" /\ i.name = NoName),
          files |-> {i.name : i \in Retained(info.items)}]
    ELSE [exc |-> ~info.data, files |-> {}]

\* get_cloud_state applied to what get_info returned: exc is the KeyError of
\* item["type"] / item["name"].
get_cloud_state(info) ==
    IF info.data /\ info.embedded /\ info.hasItems
    THEN [exc |-> \E i \in info.items :
                     i.type = "missing" \/ (i.type = "file" /\ i.name = NoName),
          files |-> {i.name : i \in Retained(info.items)}]
    ELSE [exc |-> FALSE, files |-> {}]

\* How the listing of a cycle went: "ok" a well-formed listing, "nodata"
\* get_info returned None, "notjson" get_info raised, "keyerror"
\* get_cloud_state raised, "malformed" any other document.
ListedKind(i) ==
    IF i.exc THEN "notjson"
    ELSE IF ~i.doc.data THEN "nodata"
    ELSE IF i.doc.embedded /\ i.doc.hasItems
            /\ \E it \in i.doc.items : it.type = "missing" \/ it.name = NoName
         THEN (IF get_cloud_state(i.doc).exc THEN "keyerror" ELSE "malformed")
    ELSE IF i.doc.embedded /\ i.doc.hasItems THEN "ok"
    ELSE "malformed"

\* Mutation: the membership test of the delete loop is dropped.
ToDeleteAll(cf, lf) == cf

\* "if filename not in local_files" over list(cloud_files.keys())
ToDelete(cf, lf) == cf \ lf

\* "if filename in cloud_files: reload ... else: load"
UploadOp(n, cf) == IF n \in cf THEN "reload" ELSE "load"

\* Mutation: a False result ends the cycle like an exception does.
AfterCallAbort(o, loop) == IF o.exc \/ ~o.ok THEN "sleep" ELSE loop

\* Where sync() goes on after a provider call: only an exception leaves the
\* loop (except clause); a False result is ignored.
AfterCall(o, loop) == IF o.exc THEN "sleep" ELSE loop

Call(op, n, o) == [op |-> op, name |-> n, ok |-> o.ok, exc |-> o.exc]

TypeOK ==
    /\ provider \in Providers \cup {"-"}
    /\ settings \in Settings
    /\ local_mtime \in [local_files -> MTimes]
    /\ cycles \in Nat /\ sleeps \in Nat
    /\ local \in [Names -> {"none", "dir", "file"}]
    /\ remote \in [Names -> {"none", "dir", "old", "new"}]
    /\ pc \in {"config", "scan", "list", "delete", "upload", "sleep",
              "stopped", "harness", "twins"}
    /\ local_files \subseteq Names
    /\ cloud_files \subseteq Names
    /\ done \subseteq Names
    /\ raised \in BOOLEAN
    /\ healing \in BOOLEAN
    /\ scan \in {"ok", "dirfail", "itemfail", "-"}
    /\ listed \in {"ok", "nodata", "malformed", "notjson", "keyerror", "-"}

\* Folders as they can be found at start-up.  A remote file can hold the
\* bytes of the local file only if there is a local file.
InitFolders ==
    /\ local \in [Names -> {"none", "dir", "file"}]
    /\ remote \in [Names -> {"none", "dir", "old", "new"}]
    /\ \A n \in Names : remote[n] = "new" => local[n] = "file"

InitCycle ==
    /\ local_files = {}
    /\ cloud_files = {}
    /\ done = {}
    /\ calls = <<>>
    /\ raised = FALSE
    /\ scan = "-"
    /\ listed = "-"
    /\ status = <<>>
    /\ healing = FALSE
    /\ local_mtime = <<>>
    /\ cycles = 0
    /\ sleeps = 0

\* The service is started in any environment, on any pair of folders.
Init ==
    /\ InitFolders
    /\ InitCycle
    /\ settings \in Settings
    /\ provider = "-"
    /\ twin = <<>>
    /\ pc = "config"

\* Mutation: the local folder is not checked at start-up.
StartAnyFolder(env) ==
    IF ~env.required THEN "-"
    ELSE get_cloud_provider(env.selector)

\* main() up to the first sync(): load_config, then get_cloud_provider;
\* the provider to run with, "-" when either raised (ValueError or
\* FileNotFoundError, both caught by main(), which then returns).
Start(env) ==
    IF load_config(env) # "ok" THEN "-"
    ELSE get_cloud_provider(env.selector)

\* main(): start-up, then the first call of sync().
Startup ==
    /\ pc = "config"
    /\ provider' = Start(settings)
    /\ pc' = IF Start(settings) = "-" THEN "stopped" ELSE "scan"
    /\ UNCHANGED <<local, remote, local_files, cloud_files, done, calls,
                   raised, scan, listed, status, healing,
                   settings, local_mtime, twin, cycles, sleeps>>

\* KeyboardInterrupt: it passes "except Exception" in sync() and ends
\* main(); the locals of the running cycle are gone.
Interrupt ==
    /\ pc \in {"scan", "list", "delete", "upload", "sleep"}
    /\ pc' = "stopped"
    /\ local_files' = {}
    /\ local_mtime' = <<>>
    /\ cloud_files' = {}
    /\ done' = {}
    /\ calls' = <<>>
    /\ raised' = FALSE
    /\ scan' = "-"
    /\ listed' = "-"
    /\ UNCHANGED <<provider, local, remote, status, healing,
                   settings, twin, cycles, sleeps>>

\* sync(): local_files = get_local_state(local_folder)
ScanLocal ==
    /\ pc = "scan"
    /\ \E r \in get_local_state(local) :
         /\ local_files' = r.files
         /\ local_mtime' \in [r.files -> MTimes]
         /\ scan' = r.kind
    /\ pc' = "list"
    /\ UNCHANGED <<provider, local, remote, cloud_files, done, calls, raised,
                   listed, status, healing,
                   settings, twin, cycles, sleeps>>

\* Mutation: an exception raised while listing is not caught by sync() and
\* ends main().
ListCloudUncaught ==
    /\ pc = "list"
    /\ \E i \in GetInfo(provider, remote) :
         LET cs == get_cloud_state(i.doc) IN
         /\ listed' = ListedKind(i)
         /\ IF i.exc \/ cs.exc
            THEN /\ raised' = TRUE
                 /\ cloud_files' = {}
                 /\ pc' = "stopped"
            ELSE /\ raised' = FALSE
                 /\ cloud_files' = cs.files
                 /\ pc' = "delete"
    /\ UNCHANGED <<provider, local, remote, local_files, done, calls, scan,
                   status, healing,
                   settings, local_mtime, twin, cycles, sleeps>>

\* sync(): cloud_files = get_cloud_state(cloud_provider); an exception ends
\* the cycle in the except clause of sync().
ListCloud ==
    /\ pc = "list"
    /\ \E i \in GetInfo(provider, remote) :
         LET cs == get_cloud_state(i.doc) IN
         /\ listed' = ListedKind(i)
         /\ IF i.exc \/ cs.exc
            THEN /\ raised' = TRUE
                 /\ cloud_files' = {}
                 /\ pc' = "sleep"
            ELSE /\ raised' = FALSE
                 /\ cloud_files' = cs.files
                 /\ pc' = "delete"
    /\ UNCHANGED <<provider, local, remote, local_files, done, calls, scan,
                   status, healing,
                   settings, local_mtime, twin, cycles, sleeps>>

\* Mutation: a delete that returned False is tried again.
DeleteCallRetry(n) ==
    \E o \in Delete(provider, remote, n) :
        /\ calls' = Append(calls, Call("delete", n, o))
        /\ remote' = o.remote
        /\ done' = IF o.ok THEN done \cup {n} ELSE done
        /\ raised' = o.exc
        /\ pc' = AfterCall(o, pc)

\* cloud_provider.delete(filename) and what sync() does with the result.
DeleteCall(n) ==
    \E o \in Delete(provider, remote, n) :
        /\ calls' = Append(calls, Call("delete", n, o))
        /\ remote' = o.remote
        /\ done' = done \cup {n}
        /\ raised' = o.exc
        /\ pc' = AfterCall(o, pc)

\* Mutation: a listed file whose modification time has not moved since the
\* previous scan is passed over.
UploadCallIfNewer(n) ==
    IF n \in cloud_files /\ local_mtime[n] = "same"
    THEN /\ done' = done \cup {n}
         /\ UNCHANGED <<calls, remote, raised, pc>>
    ELSE \E o \in (IF UploadOp(n, cloud_files) = "reload"
                   THEN Reload(provider, remote, local, n)
                   ELSE Load(provider, remote, local, n)) :
             /\ calls' = Append(calls, Call(UploadOp(n, cloud_files), n, o))
             /\ remote' = o.remote
             /\ done' = done \cup {n}
             /\ raised' = o.exc
             /\ pc' = AfterCall(o, pc)

\* cloud_provider.reload / load (local_file_path, filename), chosen by
\* "if filename in cloud_files".
UploadCall(n) ==
    \E o \in (IF UploadOp(n, cloud_files) = "reload"
              THEN Reload(provider, remote, local, n)
              ELSE Load(provider, remote, local, n)) :
        /\ calls' = Append(calls, Call(UploadOp(n, cloud_files), n, o))
        /\ remote' = o.remote
        /\ done' = done \cup {n}
        /\ raised' = o.exc
        /\ pc' = AfterCall(o, pc)

\* One iteration of "for filename in list(cloud_files.keys())" that calls
\* delete; names present locally are passed over.
DeleteStep ==
    /\ pc = "delete"
    /\ \E n \in ToDelete(cloud_files, local_files) \ done : DeleteCall(n)
    /\ UNCHANGED <<provider, local, local_files, cloud_files, scan, listed,
                   status, healing,
                   settings, local_mtime, twin, cycles, sleeps>>

\* The delete loop is exhausted; the upload loop starts.
DeleteDone ==
    /\ pc = "delete"
    /\ ToDelete(cloud_files, local_files) \subseteq done
    /\ done' = {}
    /\ pc' = "upload"
    /\ UNCHANGED <<provider, local, remote, local_files, cloud_files, calls,
                   raised, scan, listed, status, healing,
                   settings, local_mtime, twin, cycles, sleeps>>

\* Mutation: local files are also handled while the delete loop is running
\* (one merged loop over all names).
UploadStepMerged ==
    /\ pc \in {"delete", "upload"}
    /\ \E n \in local_files \ done : UploadCall(n)
    /\ UNCHANGED <<provider, local, local_files, cloud_files, scan, listed,
                   status, healing,
                   settings, local_mtime, twin, cycles, sleeps>>

\* One iteration of "for filename, local_mtime in local_files.items()".
UploadStep ==
    /\ pc = "upload"
    /\ \E n \in local_files \ done : UploadCall(n)
    /\ UNCHANGED <<provider, local, local_files, cloud_files, scan, listed,
                   status, healing,
                   settings, local_mtime, twin, cycles, sleeps>>

\* Mutation: at the end of the cycle the files found only in the provider's
\* folder are fetched into the local folder.
UploadDoneFetching ==
    /\ pc = "upload"
    /\ local_files \subseteq done
    /\ pc' = "sleep"
    /\ local' = [n \in Names |->
                   IF local[n] = "none" /\ remote[n] \in {"old", "new"}
                   THEN "file" ELSE local[n]]
    /\ UNCHANGED <<provider, remote, local_files, cloud_files, done,
                   calls, raised, scan, listed, status, healing,
                   settings, local_mtime, twin, cycles, sleeps>>

\* The upload loop is exhausted: "Synchronization cycle finished."
UploadDone ==
    /\ pc = "upload"
    /\ local_files \subseteq done
    /\ pc' = "sleep"
    /\ UNCHANGED <<provider, local, remote, local_files, cloud_files, done,
                   calls, raised, scan, listed, status, healing,
                   settings, local_mtime, twin, cycles, sleeps>>

\* A cycle in which the scan, the listing and every issued call succeeded.
FullySuccessful ==
    /\ pc = "sleep"
    /\ scan = "ok"
    /\ listed = "ok"
    /\ ~raised
    /\ \A i \in DOMAIN calls : calls[i].ok

\* main(): time.sleep(sync_interval), then the next sync(), whose locals
\* start afresh.
Sleep ==
    /\ pc = "sleep"
    /\ pc' = "scan"
    /\ local_files' = {}
    /\ cloud_files' = {}
    /\ done' = {}
    /\ calls' = <<>>
    /\ raised' = FALSE
    /\ scan' = "-"
    /\ listed' = "-"
    /\ local_mtime' = <<>>
    /\ UNCHANGED <<provider, local, remote, status, healing,
                   settings, twin, cycles, sleeps>>

Next ==
    \/ Startup
    \/ ScanLocal
    \/ ListCloud
    \/ DeleteStep
    \/ DeleteDone
    \/ UploadStep
    \/ UploadDone
    \/ Sleep
    \/ Interrupt

Spec == Init /\ [][Next]_vars

\* The same service with a history variable: healing is set once a cycle
\* has ended that was not fully successful.
SleepAfterCycle ==
    /\ pc = "sleep"
    /\ pc' = "scan"
    /\ local_files' = {}
    /\ cloud_files' = {}
    /\ done' = {}
    /\ calls' = <<>>
    /\ raised' = FALSE
    /\ scan' = "-"
    /\ listed' = "-"
    /\ healing' = (healing \/ ~FullySuccessful)
    /\ local_mtime' = <<>>
    /\ UNCHANGED <<provider, local, remote, status,
                   settings, twin, cycles, sleeps>>

NextHistory ==
    \/ Startup
    \/ Interrupt
    \/ ScanLocal
    \/ ListCloud
    \/ DeleteStep
    \/ DeleteDone
    \/ UploadStep
    \/ UploadDone
    \/ SleepAfterCycle

SpecHistory == Init /\ [][NextHistory]_vars

\* The same service with its scheduler counted: cycles counts the calls of
\* sync() main() has made, sleeps the calls of time.sleep() that returned.
\* Mutation: main() without the sync() ahead of its loop.
StartupCountedLoopOnly ==
    /\ pc = "config"
    /\ provider' = Start(settings)
    /\ pc' = IF Start(settings) = "-" THEN "stopped" ELSE "sleep"
    /\ UNCHANGED cycles
    /\ UNCHANGED <<local, remote, local_files, cloud_files, done, calls,
                   raised, scan, listed, status, healing,
                   settings, local_mtime, twin, sleeps>>

\* main(): start-up, then "sync(config["local_folder"], cloud_provider)".
StartupCounted ==
    /\ pc = "config"
    /\ provider' = Start(settings)
    /\ pc' = IF Start(settings) = "-" THEN "stopped" ELSE "scan"
    /\ cycles' = IF Start(settings) = "-" THEN cycles ELSE cycles + 1
    /\ UNCHANGED <<local, remote, local_files, cloud_files, done, calls,
                   raised, scan, listed, status, healing,
                   settings, local_mtime, twin, sleeps>>

\* main(): "while True: time.sleep(...); sync(...)"
SleepCounted ==
    /\ pc = "sleep"
    /\ cycles < MaxCycles
    /\ pc' = "scan"
    /\ sleeps' = sleeps + 1
    /\ cycles' = cycles + 1
    /\ local_files' = {}
    /\ cloud_files' = {}
    /\ done' = {}
    /\ calls' = <<>>
    /\ raised' = FALSE
    /\ scan' = "-"
    /\ listed' = "-"
    /\ local_mtime' = <<>>
    /\ UNCHANGED <<provider, local, remote, status, healing, settings, twin>>

NextSched ==
    \/ StartupCounted
    \/ Interrupt
    \/ ScanLocal
    \/ ListCloud
    \/ DeleteStep
    \/ DeleteDone
    \/ UploadStep
    \/ UploadDone
    \/ SleepCounted

SpecSched == Init /\ [][NextSched]_vars

(***************************************************************************)
(* The provider interface exercised directly: any sequence of calls of     *)
(* load, reload, delete and get_info on either provider.  calls holds the  *)
(* call just made, status its HTTP exchanges; again tells that the call    *)
(* repeats the call before it, which had returned True.                    *)
(***************************************************************************)
\* A provider is handed local paths: all that matters of the local folder is
\* whether the path is a readable file.
InitBackend ==
    /\ InitFolders
    /\ provider \in Providers
    /\ settings \in {e \in Settings : Start(e) = provider}
    /\ \A n \in Names : local[n] # "dir"
    /\ InitCycle
    /\ twin = <<>>
    /\ pc = "harness"

Repeats(op, n) ==
    /\ calls # <<>>
    /\ calls[1].op = op /\ calls[1].name = n /\ calls[1].ok

BackendCall(op, n, ok, exc) ==
    [op |-> op, name |-> n, ok |-> ok, exc |-> exc, again |-> Repeats(op, n)]

CallLoad ==
    /\ pc = "harness"
    /\ \E n \in Names : \E o \in Load(provider, remote, local, n) :
         /\ calls' = <<BackendCall("load", n, o.ok, o.exc)>>
         /\ remote' = o.remote
         /\ status' = o.status
    /\ UNCHANGED <<provider, local, pc, local_files, cloud_files, done,
                   raised, scan, listed, healing,
                   settings, local_mtime, twin, cycles, sleeps>>

CallReload ==
    /\ pc = "harness"
    /\ \E n \in Names : \E o \in Reload(provider, remote, local, n) :
         /\ calls' = <<BackendCall("reload", n, o.ok, o.exc)>>
         /\ remote' = o.remote
         /\ status' = o.status
    /\ UNCHANGED <<provider, local, pc, local_files, cloud_files, done,
                   raised, scan, listed, healing,
                   settings, local_mtime, twin, cycles, sleeps>>

CallDelete ==
    /\ pc = "harness"
    /\ \E n \in Names : \E o \in Delete(provider, remote, n) :
         /\ calls' = <<BackendCall("delete", n, o.ok, o.exc)>>
         /\ remote' = o.remote
         /\ status' = o.status
    /\ UNCHANGED <<provider, local, pc, local_files, cloud_files, done,
                   raised, scan, listed, healing,
                   settings, local_mtime, twin, cycles, sleeps>>

CallGetInfo ==
    /\ pc = "harness"
    /\ \E i \in GetInfo(provider, remote) :
         /\ calls' = <<BackendCall("get_info", NoName, i.doc.data, i.exc)>>
         /\ listed' = ListedKind(i)
         /\ status' = i.status
    /\ UNCHANGED <<provider, local, remote, pc, local_files, cloud_files,
                   done, raised, scan, healing,
                   settings, local_mtime, twin, cycles, sleeps>>

NextBackend ==
    \/ CallLoad
    \/ CallReload
    \/ CallDelete
    \/ CallGetInfo

SpecBackend == InitBackend /\ [][NextBackend]_vars

(***************************************************************************)
(* The two providers driven side by side: the same call is made on the     *)
(* mock folder (remote) and on the API folder (twin), which start out      *)
(* equal, with nothing going wrong around them: no network error, no       *)
(* server error, no malformed answer, no I/O error on a path that is in    *)
(* order.  calls holds the call just made with both results.               *)
(***************************************************************************)
\* The outcomes of a call in which nothing went wrong but what the call
\* itself brings about.
Faultless(outs) ==
    LET clean == {o \in outs :
                    /\ ~o.exc
                    /\ \A i \in DOMAIN o.status :
                          /\ ~o.status[i].net
                          /\ o.status[i].code < 500
                          /\ o.status[i].body \notin {"nohref", "notobject",
                                                     "notjson"}}
    IN  IF \E o \in clean : o.ok THEN {o \in clean : o.ok} ELSE clean

\* The well-formed listings among the results of get_info.
FaultlessInfo(infos, rem) ==
    {i \in infos : ~i.exc /\ i.doc.data /\ i.doc.embedded /\ i.doc.hasItems
                   /\ i.doc.items \subseteq TrueItems(rem)}

TwinCall(op, n, m, a) == [op |-> op, name |-> n, mock |-> m, api |-> a]

InitTwins ==
    /\ InitFolders
    /\ \A n \in Names : local[n] # "dir"
    /\ InitCycle
    /\ twin = remote
    /\ provider = "-"
    /\ settings = [required |-> TRUE, folder |-> TRUE, selector |-> "yandex"]
    /\ pc = "twins"

TwinLoad ==
    /\ pc = "twins"
    /\ \E n \in Names :
         \E m \in Faultless(LocalMockLoad(remote, local, n)) :
         \E a \in Faultless(YandexLoad(twin, local, n)) :
            /\ calls' = <<TwinCall("load", n, m.ok, a.ok)>>
            /\ remote' = m.remote
            /\ twin' = a.remote
    /\ UNCHANGED <<provider, local, pc, local_files, cloud_files, done,
                   raised, scan, listed, status, healing,
                   settings, local_mtime, cycles, sleeps>>

TwinReload ==
    /\ pc = "twins"
    /\ \E n \in Names :
         \E m \in Faultless(LocalMockReload(remote, local, n)) :
         \E a \in Faultless(YandexReload(twin, local, n)) :
            /\ calls' = <<TwinCall("reload", n, m.ok, a.ok)>>
            /\ remote' = m.remote
            /\ twin' = a.remote
    /\ UNCHANGED <<provider, local, pc, local_files, cloud_files, done,
                   raised, scan, listed, status, healing,
                   settings, local_mtime, cycles, sleeps>>

TwinDelete ==
    /\ pc = "twins"
    /\ \E n \in Names :
         \E m \in Faultless(LocalMockDelete(remote, n)) :
         \E a \in Faultless(YandexDelete(twin, n)) :
            /\ calls' = <<TwinCall("delete", n, m.ok, a.ok)>>
            /\ remote' = m.remote
            /\ twin' = a.remote
    /\ UNCHANGED <<provider, local, pc, local_files, cloud_files, done,
                   raised, scan, listed, status, healing,
                   settings, local_mtime, cycles, sleeps>>

\* get_info on both: the results are compared as the file names
\* get_cloud_state reads from them.
TwinGetInfo ==
    /\ pc = "twins"
    /\ \E m \in FaultlessInfo(LocalMockGetInfo(remote), remote) :
       \E a \in FaultlessInfo(YandexGetInfo(twin), twin) :
            calls' = <<TwinCall("get_info", NoName,
                                get_cloud_state(m.doc).files,
                                get_cloud_state(a.doc).files)>>
    /\ UNCHANGED <<provider, local, remote, twin, pc, local_files,
                   cloud_files, done, raised, scan, listed, status, healing,
                   settings, local_mtime, cycles, sleeps>>

NextTwins ==
    \/ TwinLoad
    \/ TwinReload
    \/ TwinDelete
    \/ TwinGetInfo

SpecTwins == InitTwins /\ [][NextTwins]_vars

(***************************************************************************)
(* Properties                                                              *)
(***************************************************************************)
\* The operations issued so far in the current cycle, as (operation, name).
OpSet == {<<calls[i].op, calls[i].name>> : i \in DOMAIN calls}

\* The operation set the diff of L and R prescribes.
Expected(L, R) ==
    {<<"delete", n>> : n \in R \ L} \cup
    {<<"reload", n>> : n \in L \cap R} \cup
    {<<"load", n>> : n \in L \ R}

NoCallRaised == \A i \in DOMAIN calls : ~calls[i].exc

\* C1: with L the scanned local names and R the file names of a successful
\* listing, a cycle never issues a call outside
\* {delete(n) | n in R \ L} + {reload(n) | n in L /\ R} + {load(n) | n in L \ R},
\* and a cycle that ran to its end without an exception has issued exactly
\* that set.
C1_OperationSet ==
    (listed = "ok" /\ pc \in {"delete", "upload", "sleep"}) =>
        /\ OpSet \subseteq Expected(local_files, cloud_files)
        /\ (pc = "sleep" /\ ~raised) => OpSet = Expected(local_files, cloud_files)

\* C1 witness: a finished cycle after a successful listing that issued a
\* delete and a reload, both returning normally.
C1_Witness ==
    /\ pc = "sleep" /\ ~raised /\ listed = "ok" /\ scan = "ok"
    /\ \E i, j \in DOMAIN calls : calls[i].op = "delete" /\ calls[j].op = "reload"

\* C2: in the call sequence of a cycle no delete comes after a load or a
\* reload.
C2_DeletesFirst ==
    \A i, j \in DOMAIN calls :
        (i < j /\ calls[i].op \in {"load", "reload"}) => calls[j].op # "delete"

\* C2 witness: a cycle that issued a delete and afterwards a load.
C2_Witness ==
    \E i, j \in DOMAIN calls :
        i < j /\ calls[i].op = "delete" /\ calls[j].op = "load"

\* What a call that returned True has done to its own file, seen at any
\* later point of the cycle.
Effect(c) ==
    IF c.op = "delete" THEN remote[c.name] = "none"
    ELSE remote[c.name] = "new"
         \/ (provider = "local_mock" /\ remote[c.name] = "dir")

\* C3: a call that returns False does not end the cycle: unless an exception
\* is raised, the cycle ends with every operation of its operation set
\* attempted, whatever the results were; and every call that returned True
\* has had its effect on its own file, whatever happened to the other files.
C3_FailureIsolation ==
    /\ (pc = "sleep" /\ ~raised)
          => Expected(local_files, cloud_files) \subseteq OpSet
    /\ (pc \in {"delete", "upload", "sleep"})
          => \A i \in DOMAIN calls : calls[i].ok => Effect(calls[i])

\* C3 witness: a finished cycle whose first call failed and whose second
\* call, for another file, succeeded.
C3_Witness ==
    /\ pc = "sleep"
    /\ Len(calls) = 2
    /\ ~calls[1].ok /\ ~calls[1].exc
    /\ calls[2].ok
    /\ calls[1].name # calls[2].name

\* Names for which the current cycle has issued operation op.
Issued(op) == {calls[i].name : i \in {j \in DOMAIN calls : calls[j].op = op}}

ScanFailed == scan \in {"dirfail", "itemfail"}

\* C4 (as stated): after any local-scan failure the mapping is empty, the
\* cycle issues no load and no reload, and a cycle that runs to its end has
\* issued a delete for every listed name.
C4_EmptyAfterAnyScanFailure ==
    ScanFailed =>
        /\ local_files = {}
        /\ Issued("load") = {} /\ Issued("reload") = {}
        /\ (pc = "sleep" /\ ~raised) => Issued("delete") = cloud_files

\* C4 (amended): a local-scan failure keeps the files recorded before the
\* failure.  The mapping holds only local files; it is empty when the
\* directory itself could not be read, and whenever it is empty the cycle
\* issues no load and no reload and, run to its end, a delete for every
\* listed name.  Otherwise the cycle deletes the listed names that were not
\* recorded and uploads the recorded ones.
C4_PartialScan ==
    ScanFailed =>
        /\ local_files \subseteq LocalFiles(local)
        /\ scan = "dirfail" => local_files = {}
        /\ local_files = {} =>
              /\ Issued("load") = {} /\ Issued("reload") = {}
              /\ (pc = "sleep" /\ ~raised) => Issued("delete") = cloud_files
        /\ (pc = "sleep" /\ ~raised) =>
              /\ Issued("delete") = cloud_files \ local_files
              /\ Issued("load") \cup Issued("reload") = local_files

\* C4 witness: the scan failed after recording a file; the cycle uploaded
\* the recorded file and deleted the remote copy of a local file the scan
\* had not reached.
C4_Witness ==
    /\ scan = "itemfail" /\ pc = "sleep" /\ ~raised
    /\ Issued("load") \cup Issued("reload") # {}
    /\ \E n \in Issued("delete") : local[n] = "file"

\* C5: when get_info returns no data the remote view is empty, the cycle
\* issues no delete and no reload, and unless a call raises it ends with a
\* load issued for every scanned local file.
C5_ListingFailure ==
    listed = "nodata" =>
        /\ cloud_files = {}
        /\ Issued("delete") = {} /\ Issued("reload") = {}
        /\ (pc = "sleep" /\ NoCallRaised) => Issued("load") = local_files

\* C5 witness: a finished cycle without listing data that issued a load
\* while a remote file without local counterpart was left alone.
C5_Witness ==
    /\ listed = "nodata" /\ pc = "sleep" /\ ~raised
    /\ Issued("load") # {}
    /\ \E n \in RemoteFiles(remote) : local[n] # "file"

\* C6 (as stated): after a malformed listing document (a key missing, or an
\* item without type or name) the cycle has an empty remote view and, unless
\* a call raises, ends with a load issued for every scanned local file.
C6_MalformedListingRecovered ==
    (listed \in {"malformed", "keyerror"} /\ pc = "sleep" /\ NoCallRaised) =>
        /\ cloud_files = {}
        /\ Issued("load") = local_files

\* The step just taken is a call of op made by sync().
JustCalled(op) ==
    /\ Len(calls') = Len(calls) + 1
    /\ calls'[Len(calls')].op = op

\* The name is absent from the backend at the call just made: no such entry
\* in the mock folder, status 404 from the API.
AbsentAtCall(n) ==
    IF provider = "local_mock"
    THEN remote[n] = "none"
    ELSE Len(status') = 1 /\ ~status'[1].net /\ status'[1].code = 404

\* C7: a delete of a name absent from the backend returns True and leaves
\* the backend's entries as they were; and a delete that repeats a delete of
\* the same name which returned True finds the name absent, so on the mock
\* folder it returns True again, and so it does on the API when answered 404.
C7_DeleteIdempotent ==
    [][ LET c == calls'[1] IN
        (pc = "harness" /\ c.op = "delete") =>
            /\ AbsentAtCall(c.name) => (c.ok /\ remote' = remote)
            /\ c.again => remote[c.name] = "none" ]_vars

\* C7 witness: delete(n) returning True right after delete(n) returned True.
C7_Witness ==
    /\ pc = "harness" /\ calls # <<>>
    /\ calls[1].op = "delete" /\ calls[1].again /\ calls[1].ok

\* C8 (as stated): a load call for a name that exists as a file in the
\* backend leaves that file's content as it was.
C8_LoadNeverOverwrites ==
    [][ JustCalled("load") =>
          LET n == calls'[Len(calls')].name IN
          remote[n] \in {"old", "new"} => remote'[n] = remote[n] ]_vars

\* C9 (as stated): after a fully successful cycle the remote file names
\* are the local file names.
C9_MirrorAfterSuccess ==
    FullySuccessful => RemoteFiles(remote) = LocalFiles(local)

\* C10 (as stated, safety part): once some cycle has fallen short, the
\* first later cycle that succeeds fully ends with the remote file names
\* equal to the local file names.
C10_SelfHealing ==
    (healing /\ FullySuccessful) => RemoteFiles(remote) = LocalFiles(local)

\* C11: a cycle that runs to its end has issued a reload for every name that
\* is both in the local scan and in the remote listing, whatever modification
\* time the scan recorded for it and whether or not the remote copy already
\* holds the same bytes; and no reload is issued for any other name.
C11_ReloadUnconditional ==
    /\ (pc = "sleep" /\ ~raised) =>
          \A n \in local_files \cap cloud_files : n \in Issued("reload")
    /\ Issued("reload") \subseteq local_files \cap cloud_files

\* C11 witness: a finished cycle issued a reload for a file whose
\* modification time had not moved and whose remote copy held the same
\* bytes (the reload failed and the copy still holds them).
C11_Witness ==
    /\ pc = "sleep" /\ ~raised
    /\ \E i \in DOMAIN calls :
         /\ calls[i].op = "reload" /\ ~calls[i].ok
         /\ local_mtime[calls[i].name] = "same"
         /\ remote[calls[i].name] = "new"

\* C12: an exception raised inside a cycle (by the listing or by a provider
\* call) never ends main(): sync() has returned, no further provider call of
\* that cycle can be made although operations of its set are still
\* outstanding, and the scheduler is in its sleep, from which the next cycle
\* starts.
C12_CycleExceptionSafety ==
    raised =>
        /\ pc = "sleep"
        /\ ~ENABLED DeleteStep /\ ~ENABLED UploadStep
        /\ ENABLED Sleep

\* C12 witness: a provider call raised while an operation of the cycle's
\* set had not been issued yet; the service is sleeping.
C12_Witness ==
    /\ raised /\ pc = "sleep" /\ listed = "ok"
    /\ calls # <<>> /\ calls[Len(calls)].exc
    /\ Expected(local_files, cloud_files) \ OpSet # {}

\* The status codes _check_response accepts.
SuccessCodes == {200, 201, 202, 204}

\* An exchange of the last direct call ended in a network error or was
\* answered with an error status (404 is no error for delete).
FailedExchange(c) ==
    \E i \in DOMAIN status :
        \/ status[i].net
        \/ /\ status[i].code \notin SuccessCodes
           /\ ~(c.op = "delete" /\ status[i].code = 404)

\* The last direct call was an upload that got as far as opening a local
\* path that is no readable file.
MissingLocalFile(c) ==
    /\ c.op \in {"load", "reload"}
    /\ local[c.name] # "file"
    /\ provider = "yandex" =>
          (~FailedExchange(c) /\ status[1].body # "notobject")

\* C13: a provider call that meets a network error, an API error status or
\* a missing or unreadable local file returns False (None for get_info) and
\* raises nothing; the local mock provider raises nothing at all.
C13_BackendFailSoft ==
    (pc = "harness" /\ calls # <<>>) =>
        LET c == calls[1] IN
        /\ (FailedExchange(c) \/ MissingLocalFile(c)) => (~c.ok /\ ~c.exc)
        /\ provider = "local_mock" => ~c.exc

\* C13 witness: a load on the API whose transfer ended in a network error
\* after the upload address had been obtained.
C13_Witness ==
    /\ pc = "harness" /\ provider = "yandex" /\ calls # <<>>
    /\ calls[1].op = "load"
    /\ Len(status) = 2 /\ ~status[1].net /\ status[2].net
    /\ ~calls[1].ok /\ ~calls[1].exc

InCycle == pc \in {"scan", "list", "delete", "upload"}

\* C14: no sleep comes before the first cycle; from then on every cycle but
\* the first follows exactly one more completed sleep (cycle, sleep, cycle,
\* ...); and main() calls sync() only at start-up or out of its sleep, when
\* no cycle is running, one call at a time.
C14_SchedulerOrder ==
    /\ [](pc = "config" => (cycles = 0 /\ sleeps = 0))
    /\ []((InCycle \/ pc = "sleep") => cycles = sleeps + 1)
    /\ [][ cycles' # cycles =>
             /\ ~InCycle
             /\ pc' = "scan"
             /\ cycles' = cycles + 1
             /\ calls' = <<>> ]_vars

\* C14 witness: the second cycle is running, after one sleep, and has
\* issued a call.
C14_Witness ==
    /\ InCycle /\ cycles = 2 /\ sleeps = 1 /\ calls # <<>>

\* main() never got to a cycle: no provider was built, no call was issued,
\* the loop was not entered.
NoWork ==
    /\ pc \in {"config", "stopped"}
    /\ provider = "-"
    /\ calls = <<>> /\ scan = "-" /\ listed = "-"

\* C15 (as stated): when a required setting is missing, the local folder
\* does not exist or the provider selector is not one of "yandex" and
\* "local_mock", no cycle runs, no provider call is issued and the loop is
\* never entered.
C15_SelectorAsWritten ==
    (~settings.required \/ ~settings.folder
        \/ settings.selector \notin {"yandex", "local_mock"}) => NoWork

\* C15 (amended): when a required setting is missing, the local folder does
\* not exist or the provider selector, put in lower case, is not one of
\* "yandex" and "local_mock", no cycle runs, no provider call is issued and
\* the loop is never entered.
C15_ConfigErrorsFatal ==
    (~settings.required \/ ~settings.folder
        \/ lower(settings.selector) \notin {"yandex", "local_mock"}) => NoWork

\* C15 witness: main() has returned on an unsupported provider name, all
\* other settings being in order.
C15_Witness ==
    /\ pc = "stopped" /\ provider = "-"
    /\ settings.required /\ settings.folder
    /\ settings.selector = "dropbox"

\* C16 (as stated): after any sequence of the same calls on both providers,
\* started from the same folder, the call just made has returned the same
\* result on both and both hold the same file names.
C16_Interchangeable ==
    pc = "twins" =>
        /\ RemoteFiles(remote) = RemoteFiles(twin)
        /\ calls # <<>> => calls[1].mock = calls[1].api

\* C17: within one cycle no two provider calls (delete, load or reload)
\* carry the same name, whatever the calls returned.
C17_NoRetry ==
    \A i, j \in DOMAIN calls : i # j => calls[i].name # calls[j].name

\* C17 witness: a cycle ran to its end after a delete had returned False;
\* the file is still in the provider's folder and was not tried again.
C17_Witness ==
    /\ pc = "sleep" /\ ~raised
    /\ \E i \in DOMAIN calls :
         /\ calls[i].op = "delete" /\ ~calls[i].ok
         /\ remote[calls[i].name] \in {"old", "new"}

\* C18: a name that is a directory in the provider's folder is never in the
\* remote file set of a cycle, so no delete and no reload is issued for it,
\* also when no local file has that name; and a cycle that runs to its end
\* has issued a load for it when a scanned local file has that name.
C18_NonFilesIgnored ==
    \A n \in Names : remote[n] = "dir" =>
        /\ n \notin cloud_files
        /\ n \notin Issued("delete") /\ n \notin Issued("reload")
        /\ (pc = "sleep" /\ ~raised /\ n \in local_files) => n \in Issued("load")

\* C18 witness: the API listed two directories; the cycle ran to its end
\* with a load issued for the one that has a local file of its name and no
\* call for the other.
C18_Witness ==
    /\ provider = "yandex" /\ listed = "ok" /\ pc = "sleep" /\ ~raised
    /\ \E n, m \in Names :
         /\ remote[n] = "dir" /\ n \in Issued("load")
         /\ remote[m] = "dir" /\ local[m] # "file" /\ calls[1].name # m
         /\ Len(calls) = 1

\* Exchange i of the last direct call was answered with a success status.
Answered(i) ==
    i \in DOMAIN status /\ ~status[i].net /\ status[i].code \in SuccessCodes

\* C19: on the API provider load and reload return True exactly when two
\* exchanges were made and both were answered with a status in
\* {200, 201, 202, 204}, and when the first exchange fails no second one is
\* made; delete returns True exactly when its exchange was answered with
\* one of these statuses or with 404.
C19_ResultProtocol ==
    (pc = "harness" /\ provider = "yandex" /\ calls # <<>>) =>
        LET c == calls[1] IN
        /\ c.op \in {"load", "reload"} =>
              /\ c.ok <=> (Len(status) = 2 /\ Answered(1) /\ Answered(2))
              /\ ~Answered(1) => Len(status) = 1
        /\ c.op = "delete" =>
              /\ Len(status) = 1
              /\ c.ok <=> (Answered(1) \/ (~status[1].net /\ status[1].code = 404))

\* C19 witness: a load whose first exchange was answered 409; no transfer
\* was made and the call returned False.
C19_Witness ==
    /\ pc = "harness" /\ provider = "yandex" /\ calls # <<>>
    /\ calls[1].op = "load" /\ ~calls[1].ok
    /\ status = <<Resp(409, "")>>

\* C20: no step of the service, inside a cycle or between cycles, changes
\* an entry of the local folder: nothing is created, modified or removed
\* there, and a file found only in the provider's folder is not fetched.
C20_LocalUntouched ==
    [][ /\ local' = local
        /\ LocalFiles(local') = LocalFiles(local) ]_vars

\* C20 witness: a cycle ran to its end with a listed file that has no local
\* counterpart; the local folder still has no entry of that name.
C20_Witness ==
    /\ pc = "sleep" /\ ~raised /\ scan = "ok"
    /\ \E n \in cloud_files : local[n] = "none" /\ n \in Issued("delete")
    /\ \E n \in Issued("load") : local[n] = "file"

====
